---- MODULE Spec2Model ----
(***************************************************************************)
(* Verification model of two device emulations of dosbox-staging:          *)
(*   - the Disney Sound Source, a parallel-port DAC with a 16-level FIFO   *)
(*     (src/src/hardware/disney.cpp);                                      *)
(*   - the MIDI byte-stream router with its sysex pacing                   *)
(*     (the midi.cpp part of src/src/midi/midi_coremidi.h).                *)
(***************************************************************************)
EXTENDS Integers, Sequences, FiniteSets, TLC

(***************************************************************************)
(* Bounds of the model                                                     *)
(***************************************************************************)
\* The virtual clock PIC_FullIndex() is explored up to this many clock units.
MaxTime == 5
\* Clock units per DAC sample period: the clock is read in units of
\* ms_per_frame / SubTicks milliseconds.
SubTicks == 2
\* Largest advance of the virtual clock between two handler calls.
MaxAdvance == 3
\* Largest frame count the mixer requests in one AudioCallback.
MaxFrames == 3

\* The sysex buffer capacity the model runs with.  The source sets
\* MIDI_SYSEX_SIZE to 8192 (include/midi.h); the model scales it down, keeping
\* it above the highest offset the pacing code reads (7).
MIDI_SYSEX_SIZE == 8
\* GetTicks() is explored up to this many milliseconds when a call starts.
MaxTicks == 6
\* Largest advance of GetTicks() between two MIDI calls.
MaxTickAdvance == 2
\* Running-status groups counted per status byte (the count saturates).
MaxGroups == 3
\* Accepted writes and mixed frames in a run that records its history
MaxWrites == 3
MaxHeard == 4

\* The bytes the emulated program writes to the data port.
DataBytes == {255}

Min(a, b) == IF a < b THEN a ELSE b

(***************************************************************************)
(* Disney Sound Source: constants                                          *)
(***************************************************************************)
max_fifo_size == 16
power_on_bits == 15
power_off_bits == 0
\* 1000.0 / dac_rate_hz milliseconds, i.e. SubTicks clock units
ms_per_frame == SubTicks
\* Mixer_GetSilentDOSSample<uint8_t>(): the unsigned 8-bit midpoint
SilentSample == 128
\* requested_frames is a uint16_t
MaxU16 == 65535

\* lut_u8to16[b]: unsigned 8-bit sample to signed 16-bit range
lut_u8to16(b) == (b - 128) * 256
\* AudioFrame{sample, sample}
AudioFrame(sample) == <<sample, sample>>

VARIABLES
    \* Disney object state
    alive,              \* the engine is constructed (disney != nullptr)
    fifo,               \* std::queue<uint8_t> fifo
    render_queue,       \* std::queue<AudioFrame> render_queue
    last_rendered_ms,   \* virtual-time cursor, in clock units
    status,             \* StatusRegister::data
    \* environment
    pic,                \* last value returned by PIC_FullIndex()
    \* observations of the last handler call
    op,                 \* name of the handler
    arg,                \* its argument (data byte / requested_frames)
    ret,                \* its return value (ReadStatus), else -1
    woke,               \* what channel->WakeUp() returned in the call
    mid_size,           \* fifo.size() right after the call's rendering
    pops,               \* number of fifo.pop() calls made by the call
    pushed,             \* frames pushed to render_queue by the call
    mixed,              \* frames handed to AddSamples_sfloat by the call
    rendered,           \* number of Render() calls made by the call
    assert_ok,          \* no assert(fifo.size()) has failed
    \* history since construction
    nwrites,            \* consecutive WriteData calls since construction
                        \* (-1 once another write or pull path ran)
    popped              \* some catch-up render popped the FIFO since then

dvars == <<alive, fifo, render_queue, last_rendered_ms, status, pic, op, arg,
           ret, woke, mid_size, pops, pushed, mixed, rendered, assert_ok, nwrites,
           popped>>

VARIABLES
    \* DB_Midi midi
    midi_status,        \* midi.status[slot]
    midi_cmd,           \* midi.cmd[slot]: len, pos, buf
    midi_sysex,         \* midi.sysex[slot]: buf, used, delay, start
    rt_buf,             \* midi.rt_buf[0]
    \* environment
    ticks,              \* last value returned by GetTicks()
    act,                \* the slot the emulated program drives in this run
    \* observations of the last MIDI call
    m_op,               \* name of the function
    m_data,             \* its data byte (-1 if none)
    m_slot,             \* its slot
    m_passed,           \* passed_ticks it computed (-1 when start was 0)
    m_slept,            \* milliseconds it passed to Delay (0: no Delay call)
    m_pos,              \* cmd.pos when it called PlayMsg(cmd.buf) (-1: no such call)
    m_at,               \* GetTicks() when the byte was parsed
    sent,               \* backend calls it made, in order
    in_bounds,          \* no buffer has been written outside its bounds
    \* history per slot
    pend,               \* data bytes since the last complete group
    ngrp,               \* groups completed since the status byte
    sxdata              \* data bytes received in the sysex transfer begun by
                        \* the last 0xF0 (the first MIDI_SYSEX_SIZE of them)

mvars == <<midi_status, midi_cmd, midi_sysex, rt_buf, ticks, act, m_op, m_data,
           m_slot, m_passed, m_slept, m_pos, m_at, sent, in_bounds, pend, ngrp, sxdata>>

VARIABLES
    \* the backend registry and the MIDI session
    handler_list,       \* MidiHandler *handler_list, as the names from its head
    registered,         \* names of the backends in the order they were constructed
    session,            \* the MIDI module object exists (test != nullptr)
    mididevice,         \* the "mididevice" setting of the session ("" outside one)
    midiconfig,         \* its "midiconfig" setting, as a token sequence
    midi_handler,       \* midi.handler (NoHandler: null)
    midi_available,     \* midi.available
    midi_in_handler,    \* midi.in_handler
    midi_in_available,  \* midi.in_available
    midi_flags,         \* midi.realtime, inputdev, autoinput, thruchan, clockout
    \* observations of the last constructor or destructor call
    opens,              \* Open calls it made, in order
    closes              \* Close calls it made, in order

svars == <<handler_list, registered, session, mididevice, midiconfig,
           midi_handler, midi_available, midi_in_handler, midi_in_available,
           midi_flags, opens, closes>>

VARIABLES
    \* history of the Disney Sound Source in the runs that record it
    accepted,           \* the bytes WriteData pushed to the FIFO, in call order
    heard               \* the frames handed to AddSamples_sfloat, in order

hvars == <<accepted, heard>>

VARIABLES
    \* the port-write path, the audio-pull path and the destructor as processes
    \* that take one queue or cursor access per step
    pc,                 \* where each of them stands ("idle": in no call)
    w_now,              \* RenderUpToNow's local now
    w_data,             \* WriteData's argument data (-1 in WriteControl)
    frames_remaining,   \* AudioCallback's local frames_remaining
    r_sample,           \* per process, what Render read with fifo.front()
    fault               \* the first access that found its queue empty ("none")

cvars == <<pc, w_now, w_data, frames_remaining, r_sample, fault>>

VARIABLES
    \* a second router that is sent the calls of slot act alone, in the runs
    \* that compare the two
    solo,               \* its status, cmd and sysex for that slot
    solo_sent           \* the backend calls its last call made

ivars == <<solo, solo_sent>>

vars == <<dvars, mvars, svars, hvars, cvars, ivars>>

(***************************************************************************)
(* Disney Sound Source: operations                                         *)
(***************************************************************************)
SetFifoFull_sticky(data, b) ==
    IF b /\ (data \div 64) % 2 = 0 THEN data + 64 ELSE data

\* bit_view<6,1> fifo_full assignment on the status byte
SetFifoFull(data, b) ==
    LET cleared == data - ((data \div 64) % 2) * 64
    IN  cleared + (IF b THEN 64 ELSE 0)

\* bit_view<0,4> power assignment on the status byte
SetPower(data, bits) == (data \div 16) * 16 + bits

IsFull_above(f) == Len(f) > max_fifo_size
IsFull_early(f) == Len(f) >= max_fifo_size - 1

IsFull(f) == Len(f) >= max_fifo_size

Render_popLast(f) ==
    IF Len(f) = 0
    THEN [frame |-> AudioFrame(0), fifo |-> f, ok |-> FALSE]
    ELSE [frame |-> AudioFrame(lut_u8to16(Head(f))), fifo |-> Tail(f), ok |-> TRUE]

\* A render that dequeues before it reads the front
Render_popFirst(f) ==
    IF Len(f) = 0
    THEN [frame |-> AudioFrame(0), fifo |-> f, ok |-> FALSE]
    ELSE LET g == IF Len(f) > 1 THEN Tail(f) ELSE f
         IN  [frame |-> AudioFrame(lut_u8to16(Head(g))), fifo |-> g, ok |-> TRUE]

\* Disney::Render on FIFO f: the frame, the FIFO afterwards, and whether
\* assert(fifo.size()) held.  With an empty FIFO the assert fires.
Render(f) ==
    IF Len(f) = 0
    THEN [frame |-> AudioFrame(0), fifo |-> f, ok |-> FALSE]
    ELSE [frame |-> AudioFrame(lut_u8to16(Head(f))),
          fifo  |-> IF Len(f) > 1 THEN Tail(f) ELSE f,
          ok    |-> TRUE]

\* A catch-up loop that also renders when the cursor equals the clock
RECURSIVE RenderLoop_throughNow(_, _, _, _)
RenderLoop_throughNow(f, q, cur, now) ==
    IF cur <= now
    THEN LET r == Render(f)
         IN  IF r.ok
             THEN RenderLoop_throughNow(r.fifo, Append(q, r.frame),
                                        cur + ms_per_frame, now)
             ELSE [fifo |-> f, rq |-> q, cursor |-> cur + ms_per_frame, ok |-> FALSE]
    ELSE [fifo |-> f, rq |-> q, cursor |-> cur, ok |-> TRUE]

\* The while loop of RenderUpToNow; it stops where the assert of Render fires
RECURSIVE RenderLoop(_, _, _, _)
RenderLoop(f, q, cur, now) ==
    IF cur < now
    THEN LET r == Render(f)
         IN  IF r.ok
             THEN RenderLoop(r.fifo, Append(q, r.frame), cur + ms_per_frame, now)
             ELSE [fifo |-> f, rq |-> q, cursor |-> cur + ms_per_frame, ok |-> FALSE]
    ELSE [fifo |-> f, rq |-> q, cursor |-> cur, ok |-> TRUE]

\* Disney::RenderUpToNow, with the clock value and the WakeUp() result
RenderUpToNow(f, q, cur, now, w) ==
    IF w
    THEN [fifo |-> f, rq |-> q, cursor |-> now, ok |-> TRUE]
    ELSE RenderLoop(f, q, cur, now)

\* The second loop of AudioCallback: n frames rendered on demand
RECURSIVE RenderRemainder(_, _, _)
RenderRemainder(f, out, n) ==
    IF n > 0
    THEN LET r == Render(f)
         IN  IF r.ok
             THEN RenderRemainder(r.fifo, Append(out, r.frame), n - 1)
             ELSE [fifo |-> f, out |-> out, ok |-> FALSE]
    ELSE [fifo |-> f, out |-> out, ok |-> TRUE]

Running == alive /\ assert_ok

\* The body of WriteData: catch-up render, then the append unless full.
\* mid is fifo.size() between the two.
WriteDataBody_fullFirst(f, q, cur, now, w, data) ==
    LET r == RenderUpToNow(f, q, cur, now, w)
    IN  [fifo   |-> IF ~r.ok \/ IsFull(f) THEN r.fifo ELSE Append(r.fifo, data),
         rq     |-> r.rq,
         cursor |-> r.cursor,
         mid    |-> Len(r.fifo),
         ok     |-> r.ok]

WriteDataBody(f, q, cur, now, w, data) ==
    LET r == RenderUpToNow(f, q, cur, now, w)
    IN  [fifo   |-> IF ~r.ok \/ IsFull(r.fifo) THEN r.fifo ELSE Append(r.fifo, data),
         rq     |-> r.rq,
         cursor |-> r.cursor,
         mid    |-> Len(r.fifo),
         ok     |-> r.ok]

WriteData(data) ==
    /\ Running
    /\ \E now \in pic .. Min(pic + MaxAdvance, MaxTime), w \in BOOLEAN :
         LET r == WriteDataBody(fifo, render_queue, last_rendered_ms, now, w, data)
         IN  /\ pic' = now
             /\ woke' = w
             /\ fifo' = r.fifo
             /\ render_queue' = r.rq
             /\ last_rendered_ms' = r.cursor
             /\ mid_size' = r.mid
             /\ pops' = Len(fifo) - r.mid
             /\ pushed' = Len(r.rq) - Len(render_queue)
             /\ rendered' = Len(r.rq) - Len(render_queue)
             /\ assert_ok' = r.ok
             /\ popped' = (popped \/ r.mid < Len(fifo))
    /\ op' = "WriteData"
    /\ arg' = data
    /\ ret' = -1
    /\ mixed' = <<>>
    /\ nwrites' = IF nwrites >= 0 THEN Min(nwrites + 1, max_fifo_size + 2) ELSE -1
    /\ UNCHANGED <<alive, status>>

WriteControl ==
    /\ Running
    /\ \E now \in pic .. Min(pic + MaxAdvance, MaxTime), w \in BOOLEAN :
         LET r == RenderUpToNow(fifo, render_queue, last_rendered_ms, now, w)
         IN  /\ pic' = now
             /\ woke' = w
             /\ fifo' = r.fifo
             /\ render_queue' = r.rq
             /\ last_rendered_ms' = r.cursor
             /\ mid_size' = Len(r.fifo)
             /\ pops' = Len(fifo) - Len(r.fifo)
             /\ pushed' = Len(r.rq) - Len(render_queue)
             /\ rendered' = Len(r.rq) - Len(render_queue)
             /\ assert_ok' = r.ok
             /\ popped' = (popped \/ Len(r.fifo) < Len(fifo))
    /\ op' = "WriteControl"
    /\ arg' = -1
    /\ ret' = -1
    /\ mixed' = <<>>
    /\ nwrites' = -1
    /\ UNCHANGED <<alive, status>>

ReadStatus ==
    /\ Running
    /\ status' = SetFifoFull(status, IsFull(fifo))
    /\ ret' = status'
    /\ op' = "ReadStatus"
    /\ arg' = -1
    /\ woke' = FALSE
    /\ mid_size' = Len(fifo)
    /\ pops' = 0
    /\ pushed' = 0
    /\ rendered' = 0
    /\ mixed' = <<>>
    /\ UNCHANGED <<alive, fifo, render_queue, last_rendered_ms, pic, assert_ok,
                   nwrites, popped>>

\* The two loops of AudioCallback on FIFO f and render queue q: the frames
\* handed to the mixer, in order, and the queues afterwards.
PullFrames_renderFirst(f, q, requested_frames) ==
    LET k == Min(requested_frames, Len(q))
        r == RenderRemainder(f, <<>>, requested_frames - k)
    IN  [fifo |-> r.fifo, rq |-> SubSeq(q, k + 1, Len(q)),
         out |-> r.out \o SubSeq(q, 1, k),
         rendered |-> Len(r.out), ok |-> r.ok]

PullFrames(f, q, requested_frames) ==
    LET k == Min(requested_frames, Len(q))
        r == RenderRemainder(f, SubSeq(q, 1, k), requested_frames - k)
    IN  [fifo |-> r.fifo, rq |-> SubSeq(q, k + 1, Len(q)), out |-> r.out,
         rendered |-> Len(r.out) - k, ok |-> r.ok]

AudioCallback(requested_frames) ==
    /\ Running
    /\ \E now \in pic .. Min(pic + MaxAdvance, MaxTime) :
         LET r == PullFrames(fifo, render_queue, requested_frames)
         IN  /\ pic' = now
             /\ render_queue' = r.rq
             /\ fifo' = r.fifo
             /\ mixed' = r.out
             /\ rendered' = r.rendered
             /\ mid_size' = Len(r.fifo)
             /\ pops' = Len(fifo) - Len(r.fifo)
             /\ assert_ok' = r.ok
             /\ last_rendered_ms' = IF r.ok THEN now ELSE last_rendered_ms
    /\ op' = "AudioCallback"
    /\ arg' = requested_frames
    /\ ret' = -1
    /\ woke' = FALSE
    /\ pushed' = 0
    /\ nwrites' = -1
    /\ UNCHANGED <<alive, status, popped>>

\* Disney::~Disney (DISNEY_ShutDown)
Destroy ==
    /\ Running
    /\ alive' = FALSE
    /\ fifo' = <<>>
    /\ render_queue' = <<>>
    /\ status' = SetPower(status, power_off_bits)
    /\ op' = "Destroy"
    /\ arg' = -1
    /\ ret' = -1
    /\ woke' = FALSE
    /\ mid_size' = 0
    /\ pops' = 0
    /\ pushed' = 0
    /\ rendered' = 0
    /\ mixed' = <<>>
    /\ nwrites' = -1
    /\ UNCHANGED <<last_rendered_ms, pic, assert_ok, popped>>

\* Disney::Disney (DISNEY_Init): the state of a fresh engine
Constructed ==
    /\ alive = TRUE
    /\ fifo = <<SilentSample>>
    /\ render_queue = <<>>
    /\ last_rendered_ms = 0
    /\ status = SetPower(0, power_on_bits)
    /\ op = "Construct"
    /\ arg = -1
    /\ ret = -1
    /\ woke = FALSE
    /\ mid_size = 1
    /\ pops = 0
    /\ pushed = 0
    /\ rendered = 0
    /\ mixed = <<>>
    /\ assert_ok = TRUE
    /\ nwrites = 0
    /\ popped = FALSE

Construct ==
    /\ ~alive
    /\ assert_ok
    /\ alive' = TRUE
    /\ fifo' = <<SilentSample>>
    /\ render_queue' = <<>>
    /\ last_rendered_ms' = 0
    /\ status' = SetPower(0, power_on_bits)
    /\ op' = "Construct"
    /\ arg' = -1
    /\ ret' = -1
    /\ woke' = FALSE
    /\ mid_size' = 1
    /\ pops' = 0
    /\ pushed' = 0
    /\ rendered' = 0
    /\ mixed' = <<>>
    /\ nwrites' = 0
    /\ popped' = FALSE
    /\ UNCHANGED <<pic, assert_ok>>

(***************************************************************************)
(* MIDI router: constants and helpers                                      *)
(***************************************************************************)
MIDI_DEVS == 4
Slots == 0 .. MIDI_DEVS - 1
\* Bit8u buf[8] of midi.cmd[slot]
CmdBufSize == 8

\* uint8_t MIDI_evt_len[256]
MIDI_evt_len(b) ==
    IF b < 128 THEN 0
    ELSE IF b < 192 THEN 3
    ELSE IF b < 224 THEN 2
    ELSE IF b < 240 THEN 3
    ELSE <<0, 2, 3, 2, 0, 0, 1, 0, 1, 0, 1, 1, 1, 0, 1, 0>>[b - 240 + 1]

\* data & 0x80
HighBit(b) == b >= 128

\* The contents buf[0 .. n-1] of a buffer, as a sequence
Bytes(buf, n) == [i \in 1 .. n |-> buf[i - 1]]

\* Calls the router makes on midi.handler.  PlayMsg(buf) is recorded with the
\* bytes the router has assembled at the head of buf (cmd.len bytes of a
\* fixed-length message, the single byte of rt_buf); PlaySysex(buf, len) with
\* the first len bytes of buf.  What a backend does with the call is outside
\* the router and is not modelled.
PlayMsg(bytes) == [kind |-> "msg", bytes |-> bytes]
PlaySysex(bytes) == [kind |-> "sysex", bytes |-> bytes]

\* The PlayMsg calls and the PlaySysex calls among the calls of out
FixedMsgs(out) == SelectSeq(out, LAMBDA m : m.kind = "msg")
SysexMsgs(out) == SelectSeq(out, LAMBDA m : m.kind = "sysex")

delay_in_ms_roundUp(sysex_bytes_num) == ((sysex_bytes_num * 2 + 4) \div 5) + 2

\* static_cast<int>((sysex_bytes_num * 1.25) / 3.125) + 2: a truncation
delay_in_ms(sysex_bytes_num) == ((sysex_bytes_num * 2) \div 5) + 2

\* The delay chosen after PlaySysex on an armed slot (buf[5..7] are read
\* whatever used is)
SysexDelay(buf, used) ==
    IF buf[5] = 127 THEN 290
    ELSE IF buf[5] = 16 /\ buf[6] = 0 /\ buf[7] = 4 THEN 145
    ELSE IF buf[5] = 16 /\ buf[6] = 0 /\ buf[7] = 1 THEN 30
    ELSE delay_in_ms(used)

\* The test that skips a too short MT-32 sysex
SkipsMT32_unarmedToo(sx) ==
    /\ sx.used >= 4
    /\ sx.used <= 9
    /\ sx.buf[1] = 65
    /\ sx.buf[3] = 22

SkipsMT32(sx) ==
    /\ sx.start # 0
    /\ sx.used >= 4
    /\ sx.used <= 9
    /\ sx.buf[1] = 65
    /\ sx.buf[3] = 22

\* The argument of Delay() at the head of MIDI_RawOutByte (0: no call)
PacingSleep_wholeDelay(sx, now) ==
    IF sx.start # 0 /\ now - sx.start < sx.delay THEN sx.delay ELSE 0

PacingSleep(sx, now) ==
    IF sx.start # 0 /\ now - sx.start < sx.delay
    THEN sx.delay - (now - sx.start)
    ELSE 0

(***************************************************************************)
(* MIDI_RawOutByte on one slot.  A slot is [st, cmd, sysex]; a result   *)
(* adds the backend calls made and whether every write stayed in bounds.   *)
(***************************************************************************)
Result(st, cmd, sysex, out, ok) ==
    [status |-> st, cmd |-> cmd, sysex |-> sysex, out |-> out, ok |-> ok]

\* Active sysex transfer, data byte: appended while room is left
SysexAppend_noReserve(sx, data) ==
    IF sx.used < MIDI_SYSEX_SIZE
    THEN [sx EXCEPT !.buf[sx.used] = data, !.used = sx.used + 1]
    ELSE sx

SysexAppend(sx, data) ==
    IF sx.used < MIDI_SYSEX_SIZE - 1
    THEN [sx EXCEPT !.buf[sx.used] = data, !.used = sx.used + 1]
    ELSE sx

\* Active sysex transfer, byte with the high bit set: the terminator is
\* stored, and the message is played unless it is a short MT-32 message; on
\* an armed slot the delay and the start stamp are refreshed.
SysexFinish_unguarded(sx, at) ==
    IF sx.used >= MIDI_SYSEX_SIZE
    THEN [sx |-> sx, out |-> <<>>, ok |-> FALSE]
    ELSE LET t == [sx EXCEPT !.buf[sx.used] = 247, !.used = sx.used + 1]
         IN  IF SkipsMT32(t)
             THEN [sx |-> t, out |-> <<>>, ok |-> TRUE]
             ELSE [sx  |-> [t EXCEPT !.delay = SysexDelay(t.buf, t.used),
                                     !.start = at],
                   out |-> <<PlaySysex(Bytes(t.buf, t.used))>>,
                   ok  |-> TRUE]

SysexFinish(sx, at) ==
    IF sx.used >= MIDI_SYSEX_SIZE
    THEN [sx |-> sx, out |-> <<>>, ok |-> FALSE]
    ELSE LET t == [sx EXCEPT !.buf[sx.used] = 247, !.used = sx.used + 1]
         IN  IF SkipsMT32(t)
             THEN [sx |-> t, out |-> <<>>, ok |-> TRUE]
             ELSE [sx  |-> IF t.start # 0
                           THEN [t EXCEPT !.delay = SysexDelay(t.buf, t.used),
                                          !.start = at]
                           ELSE t,
                   out |-> <<PlaySysex(Bytes(t.buf, t.used))>>,
                   ok  |-> TRUE]

\* A byte with the high bit set is latched as the new st
LatchStatus(st, cmd, sx, data) ==
    IF HighBit(data)
    THEN [status |-> data,
          cmd    |-> [cmd EXCEPT !.pos = 0, !.len = MIDI_evt_len(data)],
          sysex  |-> IF data = 240
                     THEN [sx EXCEPT !.buf[0] = 240, !.used = 1]
                     ELSE sx]
    ELSE [status |-> st, cmd |-> cmd, sysex |-> sx]

\* The byte is stored in cmd.buf; a complete message is played and pos is
\* set back to 1 (running st)
CmdStore_restart(cmd, data) ==
    IF cmd.len = 0 THEN [cmd |-> cmd, out |-> <<>>, ok |-> TRUE]
    ELSE IF cmd.pos >= CmdBufSize THEN [cmd |-> cmd, out |-> <<>>, ok |-> FALSE]
    ELSE LET c == [cmd EXCEPT !.buf[cmd.pos] = data, !.pos = cmd.pos + 1]
         IN  IF c.pos >= c.len
             THEN [cmd |-> [c EXCEPT !.pos = 0],
                   out |-> <<PlayMsg(Bytes(c.buf, c.len))>>, ok |-> TRUE]
             ELSE [cmd |-> c, out |-> <<>>, ok |-> TRUE]

CmdStore(cmd, data) ==
    IF cmd.len = 0 THEN [cmd |-> cmd, out |-> <<>>, ok |-> TRUE]
    ELSE IF cmd.pos >= CmdBufSize THEN [cmd |-> cmd, out |-> <<>>, ok |-> FALSE]
    ELSE LET c == [cmd EXCEPT !.buf[cmd.pos] = data, !.pos = cmd.pos + 1]
         IN  IF c.pos >= c.len
             THEN [cmd |-> [c EXCEPT !.pos = 1],
                   out |-> <<PlayMsg(Bytes(c.buf, c.len))>>, ok |-> TRUE]
             ELSE [cmd |-> c, out |-> <<>>, ok |-> TRUE]

\* From "if (data & 0x80)" to the end of the function
LatchAndStore(st, cmd, sx, data, out, ok) ==
    LET l == LatchStatus(st, cmd, sx, data)
        c == CmdStore(l.cmd, data)
    IN  IF ok
        THEN Result(l.status, c.cmd, l.sysex, out \o c.out, c.ok)
        ELSE Result(st, cmd, sx, out, FALSE)

\* The function after the pacing sleep, the byte being parsed at time at
ParseByte_rtLatched(st, cmd, sx, data, at) ==
    IF st = 240
    THEN IF ~HighBit(data)
         THEN Result(st, cmd, SysexAppend(sx, data), <<>>, TRUE)
         ELSE LET f == SysexFinish(sx, at)
              IN  LatchAndStore(st, cmd, f.sx, data, f.out, f.ok)
    ELSE LatchAndStore(st, cmd, sx, data, <<>>, TRUE)

ParseByte_noRelatch(st, cmd, sx, data, at) ==
    IF data >= 248
    THEN Result(st, cmd, sx, <<PlayMsg(<<data>>)>>, TRUE)
    ELSE IF st = 240
    THEN IF ~HighBit(data)
         THEN Result(st, cmd, SysexAppend(sx, data), <<>>, TRUE)
         ELSE LET f == SysexFinish(sx, at)
              IN  Result(0, [cmd EXCEPT !.pos = 0, !.len = 0], f.sx, f.out, f.ok)
    ELSE LatchAndStore(st, cmd, sx, data, <<>>, TRUE)

ParseByte(st, cmd, sx, data, at) ==
    IF data >= 248
    THEN Result(st, cmd, sx, <<PlayMsg(<<data>>)>>, TRUE)
    ELSE IF st = 240
    THEN IF ~HighBit(data)
         THEN Result(st, cmd, SysexAppend(sx, data), <<>>, TRUE)
         ELSE LET f == SysexFinish(sx, at)
              IN  LatchAndStore(st, cmd, f.sx, data, f.out, f.ok)
    ELSE LatchAndStore(st, cmd, sx, data, <<>>, TRUE)

\* The history kept per slot: the data bytes of the group in progress and the
\* groups completed under a st of length 2 or 3, and the data bytes
\* received since 0xF0.
Grouped(st) == st < 248 /\ MIDI_evt_len(st) \in {2, 3}

MidiRunning == in_bounds

MIDI_RawOutByte(data, slot, now) ==
    /\ MidiRunning
    /\ LET sx    == midi_sysex[slot]
           slept == PacingSleep(sx, now)
           at    == now + slept
           r     == ParseByte(midi_status[slot], midi_cmd[slot], sx, data, at)
           S     == midi_status[slot]
       IN  /\ m_passed' = IF sx.start # 0 THEN now - sx.start ELSE -1
           /\ m_slept' = slept
           /\ m_pos' = IF data < 248 /\ FixedMsgs(r.out) # <<>>
                       THEN LatchStatus(S, midi_cmd[slot], sx, data).cmd.pos + 1
                       ELSE -1
           /\ m_at' = at
           /\ ticks' = at
           /\ midi_status' = [midi_status EXCEPT ![slot] = r.status]
           /\ midi_cmd' = [midi_cmd EXCEPT ![slot] = r.cmd]
           /\ midi_sysex' = [midi_sysex EXCEPT ![slot] = r.sysex]
           /\ rt_buf' = IF data >= 248 THEN data ELSE rt_buf
           /\ sent' = r.out
           /\ in_bounds' = r.ok
           /\ pend' = [pend EXCEPT ![slot] =
                         IF data >= 248 THEN @
                         ELSE IF HighBit(data) \/ ~Grouped(S) THEN <<>>
                         ELSE IF Len(@) + 1 = MIDI_evt_len(S) - 1 THEN <<>>
                         ELSE Append(@, data)]
           /\ ngrp' = [ngrp EXCEPT ![slot] =
                         IF data >= 248 THEN @
                         ELSE IF HighBit(data) \/ ~Grouped(S) THEN 0
                         ELSE IF Len(pend[slot]) + 1 = MIDI_evt_len(S) - 1
                              THEN Min(@ + 1, MaxGroups)
                         ELSE @]
           /\ sxdata' = [sxdata EXCEPT ![slot] =
                         IF data >= 248 THEN @
                         ELSE IF data = 240 THEN <<>>
                         ELSE IF HighBit(data) THEN @
                         ELSE IF S = 240 /\ Len(@) < MIDI_SYSEX_SIZE
                              THEN Append(@, data)
                         ELSE @]
    /\ m_op' = "MIDI_RawOutByte"
    /\ m_data' = data
    /\ m_slot' = slot
    /\ UNCHANGED act

\* A clear that empties every slot
MIDI_ClearBuffer_allSlots(slot) ==
    /\ MidiRunning
    /\ midi_sysex' = [s \in Slots |-> [midi_sysex[s] EXCEPT !.used = 0]]
    /\ midi_status' = [s \in Slots |-> 0]
    /\ midi_cmd' = [s \in Slots |-> [midi_cmd[s] EXCEPT !.pos = 0, !.len = 0]]
    /\ pend' = [pend EXCEPT ![slot] = <<>>]
    /\ ngrp' = [ngrp EXCEPT ![slot] = 0]
    /\ sxdata' = [sxdata EXCEPT ![slot] = <<>>]
    /\ m_op' = "MIDI_ClearBuffer"
    /\ m_data' = -1
    /\ m_slot' = slot
    /\ m_passed' = -1
    /\ m_slept' = 0
    /\ m_pos' = -1
    /\ m_at' = ticks
    /\ sent' = <<>>
    /\ UNCHANGED <<rt_buf, ticks, act, in_bounds>>

MIDI_ClearBuffer(slot) ==
    /\ MidiRunning
    /\ midi_sysex' = [midi_sysex EXCEPT ![slot].used = 0]
    /\ midi_status' = [midi_status EXCEPT ![slot] = 0]
    /\ midi_cmd' = [midi_cmd EXCEPT ![slot].pos = 0, ![slot].len = 0]
    /\ pend' = [pend EXCEPT ![slot] = <<>>]
    /\ ngrp' = [ngrp EXCEPT ![slot] = 0]
    /\ sxdata' = [sxdata EXCEPT ![slot] = <<>>]
    /\ m_op' = "MIDI_ClearBuffer"
    /\ m_data' = -1
    /\ m_slot' = slot
    /\ m_passed' = -1
    /\ m_slept' = 0
    /\ m_pos' = -1
    /\ m_at' = ticks
    /\ sent' = <<>>
    /\ UNCHANGED <<rt_buf, ticks, act, in_bounds>>

\* The midiconfig strings of the model, as token sequences
DelaySysex == "delaysysex"
Confs == {<<>>, <<DelaySysex>>, <<"0">>, <<"0", DelaySysex>>}

\* fullconf.find("delaysysex"): the index of the first such token, 0 if none
RECURSIVE FindFrom(_, _)
FindFrom(conf, i) ==
    IF i > Len(conf) THEN 0
    ELSE IF conf[i] = DelaySysex THEN i
    ELSE FindFrom(conf, i + 1)

Find(conf) == FindFrom(conf, 1)

\* The slot loop of MIDI::MIDI: the start stamp of every slot from `slot` on,
\* fullconf being erased from the token on once it is found
RECURSIVE CtorStarts(_, _, _)
CtorStarts(conf, slot, now) ==
    IF slot >= MIDI_DEVS THEN <<>>
    ELSE IF Find(conf) # 0
    THEN <<now>> \o CtorStarts(SubSeq(conf, 1, Find(conf) - 1), slot + 1, now)
    ELSE <<0>> \o CtorStarts(conf, slot + 1, now)

\* MIDI::MIDI (the slot loop) at time now with midiconfig conf; the buffers
\* of the global DB_Midi are zero-initialised
MidiConstructed(conf, now) ==
    /\ midi_status = [s \in Slots |-> 0]
    /\ midi_cmd = [s \in Slots |->
                     [len |-> 0, pos |-> 0, buf |-> [i \in 0 .. CmdBufSize - 1 |-> 0]]]
    /\ midi_sysex = [s \in Slots |->
                     [buf   |-> [i \in 0 .. MIDI_SYSEX_SIZE - 1 |-> 0],
                      used  |-> 0,
                      delay |-> 0,
                      start |-> CtorStarts(conf, 0, now)[s + 1]]]
    /\ rt_buf = 0
    /\ ticks = now
    /\ m_op = "MIDI"
    /\ m_data = -1
    /\ m_slot = -1
    /\ m_passed = -1
    /\ m_slept = 0
    /\ m_pos = -1
    /\ m_at = now
    /\ sent = <<>>
    /\ in_bounds = TRUE
    /\ pend = [s \in Slots |-> <<>>]
    /\ ngrp = [s \in Slots |-> 0]
    /\ sxdata = [s \in Slots |-> <<>>]

(***************************************************************************)
(* Backend registry, session start (MIDI::MIDI) and teardown (MIDI::~MIDI) *)
(***************************************************************************)
\* A null MidiHandler pointer
NoHandler == ""
\* The name of Midi_none, the MidiHandler base class
NoneName == "none"
\* The backends a build registers after Midi_none
Backends == {"fluidsynth", "mt32", "coremidi", "coreaudio"}
\* The names getdefault passes over
OptInOnly == {"fluidsynth", "mt32"}
\* The mididevice settings of the model ("oss" is registered by no build here)
Devices == {"auto", "default", "none", "coremidi", "fluidsynth", "mt32", "oss"}
\* enum {MDEV_MPU, MDEV_SBUART, ...}
MDEV_SBUART == 1

\* midi.realtime, inputdev, autoinput, thruchan, clockout
Flags(autoinput) ==
    [realtime |-> TRUE, inputdev |-> MDEV_SBUART, autoinput |-> autoinput,
     thruchan |-> FALSE, clockout |-> FALSE]
\* The flags of the zero-initialised global
ZeroFlags ==
    [realtime |-> FALSE, inputdev |-> 0, autoinput |-> FALSE,
     thruchan |-> FALSE, clockout |-> FALSE]

\* MidiHandler::MidiHandler() : next(handler_list) { handler_list = this; }
Prepend_atTail(list, name) == list \o <<name>>

Prepend(list, name) == <<name>> \o list

\* handler_list after the backends of reg were constructed in that order
RECURSIVE ListOf(_)
ListOf(reg) ==
    IF reg = <<>> THEN <<>>
    ELSE Prepend(ListOf(SubSeq(reg, 1, Len(reg) - 1)), reg[Len(reg)])

\* fullconf after the slot loop: erase(find("delaysysex")) drops the token and
\* all that follows it
ConfAfterLoop(conf) ==
    IF Find(conf) # 0 THEN SubSeq(conf, 1, Find(conf) - 1) ELSE conf

\* handler->Open(conf): Midi_none always opens; any other backend opens when
\* the host lets it (okset)
OpenSucceeds(name, okset) == name = NoneName \/ name \in okset

\* One Open call: the backend, the config passed, the part of the constructor
\* that made it ("named" or "default") and what it returned
OpenCall(name, conf, phase, ok) ==
    [name |-> name, conf |-> conf, phase |-> phase, ok |-> ok]

\* The outcome of a selection: the midi fields it leaves and the Open calls
\* it made; ok is FALSE when the closing assert fails
Selected(handler, available, flags, log, ok) ==
    [handler |-> handler, available |-> available, flags |-> flags,
     log |-> log, ok |-> ok]

\* getdefault: the loop over handler_list from position i on
RECURSIVE GetDefault_noSkip(_, _, _, _, _, _, _)
GetDefault_noSkip(list, i, conf, okset, handler, available, log) ==
    IF i > Len(list)
    THEN Selected(handler, available, Flags(FALSE), log, FALSE)
    ELSE LET name == list[i]
             l    == Append(log, OpenCall(name, conf, "default",
                                                 OpenSucceeds(name, okset)))
         IN  IF OpenSucceeds(name, okset)
             THEN Selected(name, TRUE, Flags(FALSE), l, TRUE)
             ELSE GetDefault_noSkip(list, i + 1, conf, okset, handler, available, l)

RECURSIVE GetDefault(_, _, _, _, _, _, _)
GetDefault(list, i, conf, okset, handler, available, log) ==
    IF i > Len(list)
    THEN Selected(handler, available, Flags(FALSE), log, FALSE)
    ELSE LET name == list[i]
             l    == Append(log, OpenCall(name, conf, "default",
                                                 OpenSucceeds(name, okset)))
         IN  IF name \in OptInOnly
             THEN GetDefault(list, i + 1, conf, okset, handler, available, log)
             ELSE IF OpenSucceeds(name, okset)
             THEN Selected(name, TRUE, Flags(FALSE), l, TRUE)
             ELSE GetDefault(list, i + 1, conf, okset, handler, available, l)

\* The first position of name in list, 0 if it is not there
RECURSIVE IndexFrom(_, _, _)
IndexFrom(list, name, i) ==
    IF i > Len(list) THEN 0
    ELSE IF list[i] = name THEN i
    ELSE IndexFrom(list, name, i + 1)

IndexOf(list, name) == IndexFrom(list, name, 1)

\* The selection part of MIDI::MIDI: device dev, config conf; named_ok is the
\* outcome of the Open made on the named backend, okset the backends that
\* open in getdefault
Select_noFallback(list, dev, conf, named_ok, okset, handler, available) ==
    IF dev \in {"auto", "default"}
    THEN GetDefault(list, 1, conf, okset, handler, available, <<>>)
    ELSE IF IndexOf(list, dev) = 0
    THEN GetDefault(list, 1, conf, okset, handler, available, <<>>)
    ELSE Selected(dev, TRUE, Flags(TRUE),
                  <<OpenCall(dev, conf, "named", named_ok)>>, TRUE)

Select(list, dev, conf, named_ok, okset, handler, available) ==
    IF dev \in {"auto", "default"}
    THEN GetDefault(list, 1, conf, okset, handler, available, <<>>)
    ELSE IF IndexOf(list, dev) = 0
    THEN GetDefault(list, 1, conf, okset, handler, available, <<>>)
    ELSE IF OpenSucceeds(dev, IF named_ok THEN {dev} ELSE {})
    THEN Selected(dev, TRUE, Flags(TRUE),
                  <<OpenCall(dev, conf, "named", TRUE)>>, TRUE)
    ELSE GetDefault(list, 1, conf, okset, handler, available,
                    <<OpenCall(dev, conf, "named", FALSE)>>)

\* The backends in the order midi.cpp defines them in a macOS build
IncludeOrder == <<NoneName, "fluidsynth", "mt32", "coremidi", "coreaudio">>

\* The registry and session fields once MIDI::MIDI has run with device dev
\* and config conf, every Open succeeding, the backends being those of reg
SessionStarted(reg, dev, conf) ==
    LET r == Select(ListOf(reg), dev, ConfAfterLoop(conf), TRUE, Backends,
                    NoHandler, FALSE)
    IN  /\ handler_list = ListOf(reg)
        /\ registered = reg
        /\ session = TRUE
        /\ mididevice = dev
        /\ midiconfig = conf
        /\ midi_handler = r.handler
        /\ midi_available = r.available
        /\ midi_in_handler = NoHandler
        /\ midi_in_available = FALSE
        /\ midi_flags = r.flags
        /\ opens = r.log
        /\ closes = <<>>

\* Process start: the global DB_Midi and handler_list are zero-initialised
ProcessStarted ==
    /\ midi_status = [s \in Slots |-> 0]
    /\ midi_cmd = [s \in Slots |->
                     [len |-> 0, pos |-> 0, buf |-> [i \in 0 .. CmdBufSize - 1 |-> 0]]]
    /\ midi_sysex = [s \in Slots |->
                     [buf   |-> [i \in 0 .. MIDI_SYSEX_SIZE - 1 |-> 0],
                      used  |-> 0, delay |-> 0, start |-> 0]]
    /\ rt_buf = 0
    /\ ticks = 1
    /\ m_op = "main"
    /\ m_data = -1
    /\ m_slot = -1
    /\ m_passed = -1
    /\ m_slept = 0
    /\ m_pos = -1
    /\ m_at = 1
    /\ sent = <<>>
    /\ in_bounds = TRUE
    /\ pend = [s \in Slots |-> <<>>]
    /\ ngrp = [s \in Slots |-> 0]
    /\ sxdata = [s \in Slots |-> <<>>]
    /\ handler_list = <<>>
    /\ registered = <<>>
    /\ session = FALSE
    /\ mididevice = ""
    /\ midiconfig = <<>>
    /\ midi_handler = NoHandler
    /\ midi_available = FALSE
    /\ midi_in_handler = NoHandler
    /\ midi_in_available = FALSE
    /\ midi_flags = ZeroFlags
    /\ opens = <<>>
    /\ closes = <<>>

\* The constructor of one backend object, run during static initialisation:
\* Midi_none is defined first, the backends of the build follow
MidiHandler(name) ==
    /\ m_op \in {"main", "MidiHandler"}
    /\ name \notin {registered[i] : i \in DOMAIN registered}
    /\ (name = NoneName) <=> (registered = <<>>)
    /\ handler_list' = Prepend(handler_list, name)
    /\ registered' = Append(registered, name)
    /\ m_op' = "MidiHandler"
    /\ UNCHANGED <<midi_status, midi_cmd, midi_sysex, rt_buf, ticks, act, m_data,
                   m_slot, m_passed, m_slept, m_pos, m_at, sent, in_bounds, pend, ngrp,
                   sxdata>>
    /\ UNCHANGED <<session, mididevice, midiconfig, midi_handler, midi_available,
                   midi_in_handler, midi_in_available, midi_flags, opens, closes>>

\* MIDI::MIDI: the slot loop, then the selection of the output backend
MIDI(dev, conf, now, named_ok, okset) ==
    /\ ~session
    /\ in_bounds
    /\ handler_list # <<>>
    /\ LET r == Select(handler_list, dev, ConfAfterLoop(conf), named_ok, okset,
                       midi_handler, midi_available)
       IN  /\ midi_handler' = r.handler
           /\ midi_available' = r.available
           /\ midi_flags' = r.flags
           /\ opens' = r.log
           /\ session' = r.ok
    /\ midi_sysex' = [s \in Slots |->
                        [midi_sysex[s] EXCEPT !.delay = 0,
                                              !.start = CtorStarts(conf, 0, now)[s + 1]]]
    /\ midi_status' = [s \in Slots |-> 0]
    /\ midi_cmd' = [s \in Slots |-> [midi_cmd[s] EXCEPT !.pos = 0, !.len = 0]]
    /\ mididevice' = dev
    /\ midiconfig' = conf
    /\ closes' = <<>>
    /\ ticks' = now
    /\ m_op' = "MIDI"
    /\ m_data' = -1
    /\ m_slot' = -1
    /\ m_passed' = -1
    /\ m_slept' = 0
    /\ m_pos' = -1
    /\ m_at' = now
    /\ sent' = <<>>
    /\ pend' = [s \in Slots |-> <<>>]
    /\ ngrp' = [s \in Slots |-> 0]
    /\ sxdata' = [s \in Slots |-> <<>>]
    /\ UNCHANGED <<rt_buf, act, in_bounds, handler_list, registered,
                   midi_in_handler, midi_in_available>>

\* The Close calls of MIDI::~MIDI, in order
TeardownCloses_outputFirst(in_available, in_handler, available, handler) ==
    (IF available THEN <<handler>> ELSE <<>>)
    \o (IF in_available /\ in_handler # handler THEN <<in_handler>> ELSE <<>>)

TeardownCloses(in_available, in_handler, available, handler) ==
    (IF in_available /\ in_handler # handler THEN <<in_handler>> ELSE <<>>)
    \o (IF available THEN <<handler>> ELSE <<>>)

\* MIDI::~MIDI
Teardown ==
    /\ session
    /\ closes' = TeardownCloses(midi_in_available, midi_in_handler,
                                midi_available, midi_handler)
    /\ midi_available' = FALSE
    /\ midi_handler' = NoHandler
    /\ session' = FALSE
    /\ opens' = <<>>
    /\ mididevice' = ""
    /\ midiconfig' = <<>>
    /\ m_op' = "~MIDI"
    /\ UNCHANGED <<midi_status, midi_cmd, midi_sysex, rt_buf, ticks, act, m_data,
                   m_slot, m_passed, m_slept, m_pos, m_at, sent, in_bounds, pend, ngrp,
                   sxdata>>
    /\ UNCHANGED <<handler_list, registered, midi_in_handler, midi_in_available,
                   midi_flags>>

\* MIDI_Available()
MIDI_Available == midi_available

\* An input backend is taken into use during the session (midi.in_handler and
\* midi.in_available are written by no function of midi.cpp)
InputOpened(name) ==
    /\ session
    /\ name \in {handler_list[i] : i \in DOMAIN handler_list}
    /\ midi_in_handler' = name
    /\ midi_in_available' = TRUE
    /\ m_op' = "InputOpened"
    /\ UNCHANGED <<midi_status, midi_cmd, midi_sysex, rt_buf, ticks, act, m_data,
                   m_slot, m_passed, m_slept, m_pos, m_at, sent, in_bounds, pend, ngrp,
                   sxdata>>
    /\ UNCHANGED <<handler_list, registered, session, mididevice, midiconfig,
                   midi_handler, midi_available, midi_flags, opens, closes>>

(***************************************************************************)
(* Specifications                                                          *)
(***************************************************************************)
\* Nothing has been written or mixed yet
NoHistory ==
    /\ accepted = <<>>
    /\ heard = <<>>

\* No call is in progress
NoCall ==
    /\ pc = [w |-> "idle", p |-> "idle", t |-> "idle"]
    /\ w_now = 0
    /\ w_data = -1
    /\ frames_remaining = 0
    /\ r_sample = [w |-> SilentSample, p |-> SilentSample]
    /\ fault = "none"

\* What the router holds for slot s
SlotState(s) ==
    [status |-> midi_status[s], cmd |-> midi_cmd[s], sysex |-> midi_sysex[s]]

\* The second router starts as the first one does
SoloStarted ==
    /\ solo = SlotState(act)
    /\ solo_sent = <<>>

\* The Disney Sound Source alone; the MIDI router stays as constructed.
Init ==
    /\ Constructed
    /\ NoHistory
    /\ NoCall
    /\ pic = 0
    /\ MidiConstructed(<<>>, 1)
    /\ SessionStarted(IncludeOrder, "auto", <<>>)
    /\ act = 0
    /\ SoloStarted

Next ==
    \/ (\E data \in DataBytes : WriteData(data)) /\ UNCHANGED <<mvars, svars, hvars, cvars, ivars>>
    \/ WriteControl /\ UNCHANGED <<mvars, svars, hvars, cvars, ivars>>
    \/ ReadStatus /\ UNCHANGED <<mvars, svars, hvars, cvars, ivars>>
    \/ (\E n \in 0 .. MaxFrames : AudioCallback(n)) /\ UNCHANGED <<mvars, svars, hvars, cvars, ivars>>
    \/ Destroy /\ UNCHANGED <<mvars, svars, hvars, cvars, ivars>>
    \/ Construct /\ UNCHANGED <<mvars, svars, hvars, cvars, ivars>>

Spec == Init /\ [][Next]_vars

\* The MIDI router driven on one slot (act); the Disney Sound Source stays as
\* constructed.  GetTicks() is at least 1 when the session starts.
\* The slots a run drives: slot 0, the one the constructor can arm, and the
\* last one, which stands for the slots that are handled alike.
TestSlots == {0, MIDI_DEVS - 1}

\* The midiconfig strings of the runs that send bytes: pacing off and on
RunConfs == {<<>>, <<DelaySysex>>}

MidiInit ==
    /\ Constructed
    /\ NoHistory
    /\ NoCall
    /\ pic = 0
    /\ act \in TestSlots
    /\ \E conf \in RunConfs :
         /\ MidiConstructed(conf, 1)
         /\ SessionStarted(IncludeOrder, "auto", conf)
    /\ SoloStarted

\* The calls of a program between whose calls GetTicks() advances by at most
\* adv milliseconds
Feed(bytes, adv) ==
    /\ ticks <= MaxTicks
    /\ \E data \in bytes, now \in ticks .. ticks + adv :
         MIDI_RawOutByte(data, act, now)
    /\ UNCHANGED <<dvars, svars, hvars, cvars, ivars>>

ClearBuffer ==
    /\ MIDI_ClearBuffer(act)
    /\ UNCHANGED <<dvars, svars, hvars, cvars, ivars>>

\* Channel and system common messages with running status, and realtime bytes
MidiBytes == {144, 192, 242, 64, 65, 127, 250}
RawOutByte == Feed(MidiBytes, 0)
MidiNext ==
    \/ RawOutByte
    \/ ClearBuffer
MidiSpec == MidiInit /\ [][MidiNext]_vars

\* Statuses of every table length (0xF7: 0, 0xF6: 1, 0xC0: 2, 0x90: 3), 0xF0
\* and a data byte
CmdBytes == {144, 192, 246, 240, 247, 64}
RawOutCmd == Feed(CmdBytes, 0)
CmdNext ==
    \/ RawOutCmd
    \/ ClearBuffer
CmdSpec == MidiInit /\ [][CmdNext]_vars

\* Realtime bytes between the bytes of channel messages and sysex transfers
RtBytes == {144, 64, 240, 247, 250, 248}
RawOutRt == Feed(RtBytes, 0)
RtNext ==
    \/ RawOutRt
    \/ ClearBuffer
RtSpec == MidiInit /\ [][RtNext]_vars

\* Sysex transfers
SysexBytes == {240, 247, 65, 0, 250}
RawOutSysex == Feed(SysexBytes, 0)
SysexNext ==
    \/ RawOutSysex
    \/ ClearBuffer
SysexSpec == MidiInit /\ [][SysexNext]_vars

\* Sysex transfers that can carry the MT-32 signature (0x41 at offset 1, 0x16
\* at offset 3)
Mt32Bytes == {240, 247, 65, 22}
RawOutMt32 == Feed(Mt32Bytes, 0)
Mt32Next ==
    \/ RawOutMt32
Mt32Spec == MidiInit /\ [][Mt32Next]_vars

\* Sysex transfers under a running clock
PaceBytes == {240, 247, 127, 250}
RawOutPaced == Feed(PaceBytes, MaxTickAdvance)
PaceNext ==
    \/ RawOutPaced
    \/ ClearBuffer
PaceSpec == MidiInit /\ [][PaceNext]_vars

\* The Disney Sound Source with its history recorded; the n-th accepted write
\* carries the byte n, so that a frame names the write it came from.
OrderWrite ==
    /\ Len(accepted) < MaxWrites
    /\ WriteData(Len(accepted) + 1)
    /\ accepted' = IF Len(fifo') > mid_size'
                   THEN Append(accepted, Len(accepted) + 1)
                   ELSE accepted
    /\ heard' = heard
    /\ UNCHANGED <<mvars, svars, cvars, ivars>>

OrderStrobe ==
    /\ WriteControl
    /\ UNCHANGED <<mvars, svars, hvars, cvars, ivars>>

OrderPull ==
    /\ \E n \in 0 .. MaxFrames :
         /\ Len(heard) + n <= MaxHeard
         /\ AudioCallback(n)
    /\ heard' = heard \o mixed'
    /\ accepted' = accepted
    /\ UNCHANGED <<mvars, svars, cvars, ivars>>

OrderNext ==
    \/ OrderWrite
    \/ OrderStrobe
    \/ OrderPull
OrderSpec == Init /\ [][OrderNext]_vars

\* The port-write path (w), the audio-pull path (p) and the destructor (t)
\* as processes that interleave between any two accesses of fifo,
\* render_queue and last_rendered_ms.  The source takes no lock.  An access
\* that finds its queue empty (a failed assert, or front() or pop() on an
\* empty std::queue, whose behaviour is undefined) is recorded in fault and
\* the run is not followed further.
obs == <<op, arg, ret, woke, mid_size, pops, pushed, mixed, rendered, assert_ok,
         nwrites, popped>>

Goto(self, label) == pc' = [pc EXCEPT ![self] = label]

Stepping == fault = "none"

\* WriteData / WriteControl up to the WakeUp() test of RenderUpToNow
W_Begin ==
    /\ Stepping
    /\ alive
    /\ pc.w = "idle"
    /\ \E d \in DataBytes \cup {-1}, t \in pic .. Min(pic + MaxAdvance, MaxTime),
          w \in BOOLEAN :
         /\ d # -1 => Len(fifo) <= MaxWrites
         /\ w_data' = d
         /\ w_now' = t
         /\ pic' = t
         /\ Goto("w", IF w THEN "wake" ELSE "loop")
    /\ UNCHANGED <<alive, fifo, render_queue, last_rendered_ms, status, obs,
                   frames_remaining, r_sample, fault>>

\* last_rendered_ms = now; return
W_Wake ==
    /\ Stepping
    /\ pc.w = "wake"
    /\ last_rendered_ms' = w_now
    /\ Goto("w", IF w_data = -1 THEN "idle" ELSE "full")
    /\ UNCHANGED <<alive, fifo, render_queue, status, pic, obs,
                   w_now, w_data, frames_remaining, r_sample, fault>>

\* while (last_rendered_ms < now)
W_Loop ==
    /\ Stepping
    /\ pc.w = "loop"
    /\ Goto("w", IF last_rendered_ms < w_now THEN "add"
                 ELSE IF w_data = -1 THEN "idle" ELSE "full")
    /\ UNCHANGED <<dvars, w_now, w_data, frames_remaining, r_sample, fault>>

\* last_rendered_ms += ms_per_frame
W_Add ==
    /\ Stepping
    /\ pc.w = "add"
    /\ last_rendered_ms' = last_rendered_ms + ms_per_frame
    /\ Goto("w", "r_assert")
    /\ UNCHANGED <<alive, fifo, render_queue, status, pic, obs,
                   w_now, w_data, frames_remaining, r_sample, fault>>

\* Render: assert(fifo.size())
R_Assert(self) ==
    /\ Stepping
    /\ pc[self] = "r_assert"
    /\ IF Len(fifo) = 0
       THEN fault' = "render_empty" /\ pc' = pc
       ELSE fault' = fault /\ Goto(self, "r_front")
    /\ UNCHANGED <<dvars, w_now, w_data, frames_remaining, r_sample>>

\* Render: fifo.front()
R_Front(self) ==
    /\ Stepping
    /\ pc[self] = "r_front"
    /\ IF Len(fifo) = 0
       THEN fault' = "render_empty" /\ pc' = pc /\ r_sample' = r_sample
       ELSE /\ fault' = fault
            /\ r_sample' = [r_sample EXCEPT ![self] = Head(fifo)]
            /\ Goto(self, "r_size")
    /\ UNCHANGED <<dvars, w_now, w_data, frames_remaining>>

\* Render: if (fifo.size() > 1)
R_Size(self) ==
    /\ Stepping
    /\ pc[self] = "r_size"
    /\ Goto(self, IF Len(fifo) > 1 THEN "r_pop" ELSE "r_return")
    /\ UNCHANGED <<dvars, w_now, w_data, frames_remaining, r_sample, fault>>

\* Render: fifo.pop()
R_Pop(self) ==
    /\ Stepping
    /\ pc[self] = "r_pop"
    /\ IF Len(fifo) = 0
       THEN fault' = "fifo_pop_empty" /\ pc' = pc /\ fifo' = fifo
       ELSE fault' = fault /\ fifo' = Tail(fifo) /\ Goto(self, "r_return")
    /\ UNCHANGED <<alive, render_queue, last_rendered_ms, status, pic, obs,
                   w_now, w_data, frames_remaining, r_sample>>

\* render_queue.emplace(Render())
W_Push ==
    /\ Stepping
    /\ pc.w = "r_return"
    /\ render_queue' = Append(render_queue, AudioFrame(lut_u8to16(r_sample.w)))
    /\ Goto("w", "loop")
    /\ UNCHANGED <<alive, fifo, last_rendered_ms, status, pic, obs,
                   w_now, w_data, frames_remaining, r_sample, fault>>

\* WriteData: if (!IsFull())
W_Full ==
    /\ Stepping
    /\ pc.w = "full"
    /\ Goto("w", IF IsFull(fifo) THEN "idle" ELSE "emplace")
    /\ UNCHANGED <<dvars, w_now, w_data, frames_remaining, r_sample, fault>>

\* WriteData: fifo.emplace(data)
W_Emplace ==
    /\ Stepping
    /\ pc.w = "emplace"
    /\ fifo' = Append(fifo, w_data)
    /\ Goto("w", "idle")
    /\ UNCHANGED <<alive, render_queue, last_rendered_ms, status, pic, obs,
                   w_now, w_data, frames_remaining, r_sample, fault>>

\* AudioCallback: frames_remaining = requested_frames
P_Begin ==
    /\ Stepping
    /\ alive
    /\ pc.p = "idle"
    /\ \E n \in 0 .. MaxFrames : frames_remaining' = n
    /\ Goto("p", "q_test")
    /\ UNCHANGED <<dvars, w_now, w_data, r_sample, fault>>

\* while (frames_remaining && render_queue.size())
P_QueueTest ==
    /\ Stepping
    /\ pc.p = "q_test"
    /\ Goto("p", IF frames_remaining > 0 /\ Len(render_queue) > 0
                 THEN "q_front"
                 ELSE "d_test")
    /\ UNCHANGED <<dvars, w_now, w_data, frames_remaining, r_sample, fault>>

\* AddSamples_sfloat(1, &render_queue.front()[0])
P_QueueFront ==
    /\ Stepping
    /\ pc.p = "q_front"
    /\ IF Len(render_queue) = 0
       THEN fault' = "render_queue_front_empty" /\ pc' = pc
       ELSE fault' = fault /\ Goto("p", "q_pop")
    /\ UNCHANGED <<dvars, w_now, w_data, frames_remaining, r_sample>>

\* render_queue.pop(); --frames_remaining
P_QueuePop ==
    /\ Stepping
    /\ pc.p = "q_pop"
    /\ IF Len(render_queue) = 0
       THEN /\ fault' = "render_queue_pop_empty"
            /\ UNCHANGED <<pc, render_queue, frames_remaining>>
       ELSE /\ fault' = fault
            /\ render_queue' = Tail(render_queue)
            /\ frames_remaining' = frames_remaining - 1
            /\ Goto("p", "q_test")
    /\ UNCHANGED <<alive, fifo, last_rendered_ms, status, pic, obs,
                   w_now, w_data, r_sample>>

\* while (frames_remaining)
P_DemandTest ==
    /\ Stepping
    /\ pc.p = "d_test"
    /\ Goto("p", IF frames_remaining > 0 THEN "r_assert" ELSE "sync")
    /\ UNCHANGED <<dvars, w_now, w_data, frames_remaining, r_sample, fault>>

\* AddSamples_sfloat(1, &frame[0]); --frames_remaining
P_Mix ==
    /\ Stepping
    /\ pc.p = "r_return"
    /\ frames_remaining' = frames_remaining - 1
    /\ Goto("p", "d_test")
    /\ UNCHANGED <<dvars, w_now, w_data, r_sample, fault>>

\* last_rendered_ms = PIC_FullIndex()
P_Sync ==
    /\ Stepping
    /\ pc.p = "sync"
    /\ \E t \in pic .. Min(pic + MaxAdvance, MaxTime) :
         /\ pic' = t
         /\ last_rendered_ms' = t
    /\ Goto("p", "idle")
    /\ UNCHANGED <<alive, fifo, render_queue, status, obs,
                   w_now, w_data, frames_remaining, r_sample, fault>>

\* ~Disney up to channel->Enable(false): it runs where the port handlers run,
\* so no port write is in progress; a pull that has begun goes on
T_Begin ==
    /\ Stepping
    /\ alive
    /\ pc.w = "idle"
    /\ pc.t = "idle"
    /\ alive' = FALSE
    /\ Goto("t", "fifo")
    /\ UNCHANGED <<fifo, render_queue, last_rendered_ms, status, pic, obs,
                   w_now, w_data, frames_remaining, r_sample, fault>>

\* fifo = {}
T_Fifo ==
    /\ Stepping
    /\ pc.t = "fifo"
    /\ fifo' = <<>>
    /\ Goto("t", "render_queue")
    /\ UNCHANGED <<alive, render_queue, last_rendered_ms, status, pic, obs,
                   w_now, w_data, frames_remaining, r_sample, fault>>

\* render_queue = {}; status.power = power_off_bits
T_RenderQueue ==
    /\ Stepping
    /\ pc.t = "render_queue"
    /\ render_queue' = <<>>
    /\ status' = SetPower(status, power_off_bits)
    /\ Goto("t", "done")
    /\ UNCHANGED <<alive, fifo, last_rendered_ms, pic, obs,
                   w_now, w_data, frames_remaining, r_sample, fault>>

ConcNext ==
    \/ W_Begin /\ UNCHANGED <<mvars, svars, hvars, ivars>>
    \/ W_Wake /\ UNCHANGED <<mvars, svars, hvars, ivars>>
    \/ W_Loop /\ UNCHANGED <<mvars, svars, hvars, ivars>>
    \/ W_Add /\ UNCHANGED <<mvars, svars, hvars, ivars>>
    \/ (\E self \in {"w", "p"} : R_Assert(self)) /\ UNCHANGED <<mvars, svars, hvars, ivars>>
    \/ (\E self \in {"w", "p"} : R_Front(self)) /\ UNCHANGED <<mvars, svars, hvars, ivars>>
    \/ (\E self \in {"w", "p"} : R_Size(self)) /\ UNCHANGED <<mvars, svars, hvars, ivars>>
    \/ (\E self \in {"w", "p"} : R_Pop(self)) /\ UNCHANGED <<mvars, svars, hvars, ivars>>
    \/ W_Push /\ UNCHANGED <<mvars, svars, hvars, ivars>>
    \/ W_Full /\ UNCHANGED <<mvars, svars, hvars, ivars>>
    \/ W_Emplace /\ UNCHANGED <<mvars, svars, hvars, ivars>>
    \/ P_Begin /\ UNCHANGED <<mvars, svars, hvars, ivars>>
    \/ P_QueueTest /\ UNCHANGED <<mvars, svars, hvars, ivars>>
    \/ P_QueueFront /\ UNCHANGED <<mvars, svars, hvars, ivars>>
    \/ P_QueuePop /\ UNCHANGED <<mvars, svars, hvars, ivars>>
    \/ P_DemandTest /\ UNCHANGED <<mvars, svars, hvars, ivars>>
    \/ P_Mix /\ UNCHANGED <<mvars, svars, hvars, ivars>>
    \/ P_Sync /\ UNCHANGED <<mvars, svars, hvars, ivars>>
    \/ T_Begin /\ UNCHANGED <<mvars, svars, hvars, ivars>>
    \/ T_Fifo /\ UNCHANGED <<mvars, svars, hvars, ivars>>
    \/ T_RenderQueue /\ UNCHANGED <<mvars, svars, hvars, ivars>>
ConcSpec == Init /\ [][ConcNext]_vars

\* Two programs, one on slot act and one on the other driven slot, whose
\* calls interleave; the second router gets the calls of slot act only, at
\* the same clock readings.  GetTicks() is one millisecond further at each
\* byte, which bounds the bytes of a run by MaxTicks.
SlotBytes == {144, 240, 247, 64}

OtherSlot == CHOOSE t \in TestSlots : t # act

SoloRawOutByte(d, t) ==
    LET slept == PacingSleep(solo.sysex, t)
        r     == ParseByte(solo.status, solo.cmd, solo.sysex, d, t + slept)
    IN  /\ solo' = [status |-> r.status, cmd |-> r.cmd, sysex |-> r.sysex]
        /\ solo_sent' = r.out

SoloClearBuffer ==
    /\ solo' = [solo EXCEPT !.sysex.used = 0, !.status = 0,
                            !.cmd.pos = 0, !.cmd.len = 0]
    /\ solo_sent' = <<>>

RawOutOwn ==
    /\ ticks <= MaxTicks
    /\ \E d \in SlotBytes, t \in {ticks + 1} :
         /\ MIDI_RawOutByte(d, act, t)
         /\ SoloRawOutByte(d, t)
    /\ UNCHANGED <<dvars, svars, hvars, cvars>>

RawOutOther ==
    /\ ticks <= MaxTicks
    /\ \E d \in SlotBytes, t \in {ticks + 1} :
         MIDI_RawOutByte(d, OtherSlot, t)
    /\ UNCHANGED <<dvars, svars, hvars, cvars, ivars>>

ClearOwn ==
    /\ MIDI_ClearBuffer(act)
    /\ SoloClearBuffer
    /\ UNCHANGED <<dvars, svars, hvars, cvars>>

ClearOther ==
    /\ MIDI_ClearBuffer(OtherSlot)
    /\ UNCHANGED <<dvars, svars, hvars, cvars, ivars>>

SlotNext ==
    \/ RawOutOwn
    \/ RawOutOther
    \/ ClearOwn
    \/ ClearOther
SlotSpec == MidiInit /\ [][SlotNext]_vars

\* Static initialisation, then sessions that start and end; no byte is sent.
SessionInit ==
    /\ Constructed
    /\ NoHistory
    /\ NoCall
    /\ pic = 0
    /\ act = 0
    /\ ProcessStarted
    /\ SoloStarted

Register ==
    /\ \E name \in Backends \cup {NoneName} : MidiHandler(name)
    /\ UNCHANGED <<dvars, hvars, cvars, ivars>>

StartSession ==
    /\ \E dev \in Devices, conf \in Confs, named_ok \in BOOLEAN,
          okset \in SUBSET (Backends \ OptInOnly) :
         MIDI(dev, conf, ticks, named_ok, okset)
    /\ UNCHANGED <<dvars, hvars, cvars, ivars>>

OpenInput ==
    /\ \E name \in Backends \cup {NoneName} : InputOpened(name)
    /\ UNCHANGED <<dvars, hvars, cvars, ivars>>

EndSession ==
    /\ Teardown
    /\ UNCHANGED <<dvars, hvars, cvars, ivars>>

SessionNext ==
    \/ Register
    \/ StartSession
    \/ OpenInput
    \/ EndSession
SessionSpec == SessionInit /\ [][SessionNext]_vars

(***************************************************************************)
(* Claims on the Disney Sound Source (specification Spec)                  *)
(***************************************************************************)

\* C1: every AudioCallback(n) hands exactly n frames to the mixer channel,
\* one AddSamples call per frame, and no Render ever runs on an empty FIFO
\* (assert(fifo.size()) never fails).
C1_PullDeliversExactlyN ==
    /\ assert_ok
    /\ op = "AudioCallback" =>
         /\ arg \in 0 .. MaxU16
         /\ Len(mixed) = arg
         /\ rendered <= arg

C1_Witness ==
    /\ op = "AudioCallback"
    /\ arg = MaxFrames
    /\ Len(mixed) = MaxFrames
    /\ rendered = MaxFrames
    /\ pops > 0

\* C2: between construction and teardown the FIFO size is in 1..16 in every
\* state, and every pop made by a call is made at a size greater than 1
\* (a call that pops k times starts with more than k samples).
C2_FifoSizeAndPop ==
    /\ alive => Len(fifo) \in 1 .. 16
    /\ [][ /\ alive' => Len(fifo') \in 1 .. 16
           /\ (alive' /\ pops' > 0) => (Len(fifo) > 1 /\ Len(fifo) - pops' >= 1)
         ]_vars

C2_Witness ==
    /\ alive
    /\ op = "AudioCallback"
    /\ pops > 0
    /\ rendered > pops
    /\ Len(fifo) = 1

\* C3: WriteData renders up to now first and decides on the occupancy the
\* render leaves: below 16 the byte is appended at the tail of what is left,
\* otherwise the byte is dropped and the FIFO is exactly what was left.
C3_WriteAppendsOrDrops ==
    [][ op' = "WriteData" =>
          LET left == SubSeq(fifo, pops' + 1, Len(fifo))
          IN  /\ mid_size' = Len(left)
              /\ IF Len(left) < 16
                 THEN fifo' = Append(left, arg') /\ Len(fifo') = Len(left) + 1
                 ELSE fifo' = left
      ]_vars

C3_Witness ==
    /\ op = "WriteData"
    /\ mid_size = 16
    /\ Len(fifo) = 16
    /\ nwrites = -1

\* C4 as stated: 17 consecutive WriteData calls on a fresh engine leave
\* exactly 16 samples, whatever the clock and the wake-up results.
C4_Original ==
    (alive /\ nwrites >= 17) => Len(fifo) = 16

\* C4 (amended): after 17 consecutive WriteData calls on a fresh engine the
\* FIFO holds at most 16 samples, and exactly 16 when no catch-up render of
\* those writes popped the FIFO.
C4_SeventeenWrites ==
    (alive /\ nwrites >= 17) =>
        /\ Len(fifo) <= 16
        /\ ~popped => Len(fifo) = 16

C4_Witness ==
    /\ alive
    /\ op = "WriteData"
    /\ nwrites = 17
    /\ ~popped
    /\ Len(fifo) = 16
    /\ pic > 0

\* C5: ReadStatus returns 0x4F when the FIFO holds 16 samples at the read and
\* 0x0F otherwise, and changes neither the FIFO, the render queue nor the
\* virtual-time cursor.
C5_ReadStatus ==
    [][ op' = "ReadStatus" =>
          /\ ret' = (IF Len(fifo) = 16 THEN 79 ELSE 15)
          /\ UNCHANGED <<fifo, render_queue, last_rendered_ms>>
      ]_vars

C5_Witness ==
    /\ op = "ReadStatus"
    /\ ret = 79
    /\ Len(fifo) = 16
    /\ pic > 0

\* C6: AudioCallback(n) with q queued frames delivers the first min(n, q)
\* queued frames in order, then n - q frames rendered from the FIFO (only
\* when q < n), keeps the other queued frames in order and ends with the
\* cursor at the current virtual time.
C6_QueuedFramesFirst ==
    [][ op' = "AudioCallback" =>
          LET n == arg'
              q == Len(render_queue)
              k == Min(n, q)
          IN  /\ Len(mixed') = n
              /\ SubSeq(mixed', 1, k) = SubSeq(render_queue, 1, k)
              /\ \A i \in 1 .. n - k :
                   mixed'[k + i] = AudioFrame(lut_u8to16(fifo[Min(i, Len(fifo))]))
              /\ rendered' = n - k
              /\ q >= n => fifo' = fifo
              /\ render_queue' = SubSeq(render_queue, k + 1, q)
              /\ last_rendered_ms' = pic'
      ]_vars

C6_Witness ==
    /\ op = "AudioCallback"
    /\ rendered > 0
    /\ Len(mixed) > rendered
    /\ mixed[1] # mixed[Len(mixed)]
    /\ last_rendered_ms = pic
    /\ pic > 0

(***************************************************************************)
(* Claims on the MIDI router                                               *)
(***************************************************************************)

\* C7 (MidiSpec): running status.  Under a status byte S of table length L in
\* {2, 3}, the status byte itself dispatches no fixed message, a data byte
\* that completes a group of L-1 data bytes dispatches exactly the message S
\* followed by that group, and a data byte that does not dispatches nothing.
C7_RunningStatus ==
    [][ m_op' = "MIDI_RawOutByte" =>
          LET d == m_data'
              s == m_slot'
              S == midi_status[s]
          IN  /\ (d < 248 /\ Grouped(d)) => FixedMsgs(sent') = <<>>
              /\ (d < 128 /\ Grouped(S)) =>
                   IF Len(pend[s]) + 1 = MIDI_evt_len(S) - 1
                   THEN sent' = <<PlayMsg(<<S>> \o pend[s] \o <<d>>)>>
                   ELSE sent' = <<>>
      ]_vars

C7_Witness ==
    /\ m_op = "MIDI_RawOutByte"
    /\ midi_status[act] = 144
    /\ ngrp[act] = 2
    /\ m_data = 127
    /\ sent = <<PlayMsg(<<144, 65, 127>>)>>

C9_SysexBounded ==
    /\ in_bounds = TRUE
    /\ \A s \in Slots : midi_sysex[s].used <= MIDI_SYSEX_SIZE

C9_SysexFramed ==
    /\ C9_SysexBounded
    /\ [][ /\ C9_SysexBounded'
           /\ \A i \in DOMAIN sent' :
                sent'[i].kind = "sysex" =>
                  LET got  == sxdata[m_slot']
                      kept == SubSeq(got, 1, Min(Len(got), MIDI_SYSEX_SIZE - 2))
                      b    == sent'[i].bytes
                  IN  /\ b = <<240>> \o kept \o <<247>>
                      /\ Len(b) <= MIDI_SYSEX_SIZE
                      /\ \A j \in 2 .. Len(b) - 1 : b[j] < 128
         ]_vars

C9_Witness ==
    /\ m_op = "MIDI_RawOutByte"
    /\ Len(sent) = 1
    /\ sent[1].kind = "sysex"
    /\ Len(sent[1].bytes) = MIDI_SYSEX_SIZE
    /\ Len(sxdata[act]) > MIDI_SYSEX_SIZE - 2
    /\ sent[1].bytes[2] # sent[1].bytes[3]

\* C10 (PaceSpec): on an armed slot (start # 0) a call that arrives e ms
\* after start sleeps delay - e when e < delay and not at all otherwise, so
\* its byte is parsed no earlier than start + delay; a sysex dispatched on an
\* armed slot stamps start with the time of the dispatch.
C10_PacingSleep ==
    [][ m_op' = "MIDI_RawOutByte" =>
          LET sx == midi_sysex[m_slot']
          IN  sx.start # 0 =>
                /\ m_passed' = (m_at' - m_slept') - sx.start
                /\ m_slept' = (IF m_passed' < sx.delay
                               THEN sx.delay - m_passed' ELSE 0)
                /\ m_at' >= sx.start + sx.delay
                /\ SysexMsgs(sent') # <<>> =>
                     midi_sysex'[m_slot'].start = m_at'
      ]_vars

C10_Witness ==
    /\ m_op = "MIDI_RawOutByte"
    /\ m_data = 250
    /\ m_passed > 0
    /\ m_slept > 0
    /\ midi_sysex[act].delay = m_passed + m_slept

\* C11 (PaceSpec): a slot that the constructor left unarmed (start = 0) has
\* delay = 0 and keeps start = 0 and delay = 0 over every call, sysex
\* dispatches included, and no MIDI_RawOutByte on it sleeps.
C11_UnarmedStaysUnarmed ==
    /\ \A s \in Slots : midi_sysex[s].start = 0 => midi_sysex[s].delay = 0
    /\ [][ \A s \in Slots :
             midi_sysex[s].start = 0 =>
               /\ midi_sysex'[s].start = 0
               /\ midi_sysex'[s].delay = 0
               /\ (m_op' = "MIDI_RawOutByte" /\ m_slot' = s) => m_slept' = 0
         ]_vars

C11_Witness ==
    /\ m_op = "MIDI_RawOutByte"
    /\ midi_sysex[act].start = 0
    /\ midi_sysex[act].delay = 0
    /\ m_slept = 0
    /\ ticks > 1
    /\ SysexMsgs(sent) # <<>>
    /\ Len(sent[1].bytes) > 5
    /\ sent[1].bytes[6] = 127

(***************************************************************************)
(* Claims on session start and teardown (specification SessionSpec)        *)
(***************************************************************************)

\* C12 (SessionSpec): as claimed, a session whose midiconfig holds the token
\* delaysysex has the start stamp set on every one of the 4 slots, and a
\* session without the token has it set on none.  The constructor arms slot 0
\* only: its first loop round erases the token, so the later rounds find none.
C12_Original ==
    session =>
      IF Find(midiconfig) # 0
      THEN \A s \in Slots : midi_sysex[s].start # 0
      ELSE \A s \in Slots : midi_sysex[s].start = 0

\* The names of handler_list that getdefault may open, in list order
Eligible(list) == SelectSeq(list, LAMBDA n : n \notin OptInOnly)
\* The names of the Open calls of a log
OpenNames(log) == [i \in DOMAIN log |-> log[i].name]
\* The Open calls of a log made by getdefault
DefaultOpens(log) == SelectSeq(log, LAMBDA c : c.phase = "default")

\* C13 (SessionSpec): with mididevice "auto" or "default" the constructor
\* opens the backends of handler_list that are neither fluidsynth nor mt32,
\* in list order, up to the first whose Open succeeds and no further; that
\* backend becomes midi.handler, it is Midi_none exactly when every other
\* eligible backend failed, and midi.available is true afterwards.
C13_AutoSelection ==
    (m_op = "MIDI" /\ mididevice \in {"auto", "default"}) =>
      LET elig == Eligible(handler_list)
          k    == Len(opens)
      IN  /\ session
          /\ midi_available
          /\ k >= 1
          /\ k <= Len(elig)
          /\ OpenNames(opens) = SubSeq(elig, 1, k)
          /\ \A i \in 1 .. k : opens[i].ok <=> (i = k)
          /\ midi_handler = opens[k].name
          /\ (midi_handler = NoneName) <=> (k = Len(elig))

C13_Witness ==
    /\ m_op = "MIDI"
    /\ mididevice = "auto"
    /\ handler_list = <<"fluidsynth", "coreaudio", "mt32", "coremidi", NoneName>>
    /\ OpenNames(opens) = <<"coreaudio", "coremidi">>
    /\ midi_handler = "coremidi"
    /\ midi_available

\* C14 (SessionSpec): with any other mididevice, a registered backend of that
\* name whose Open succeeds becomes midi.handler (fluidsynth and mt32
\* included) and it is the only backend opened; when its Open fails, or no
\* backend has the name, the Open calls that follow and the backend chosen
\* are those of getdefault: the eligible backends in list order up to the
\* first that opens, Midi_none when all others fail.
C14_NamedDevice ==
    (m_op = "MIDI" /\ mididevice \notin {"auto", "default"}) =>
      LET found == IndexOf(handler_list, mididevice) # 0
          named == SelectSeq(opens, LAMBDA c : c.phase = "named")
          dflt  == DefaultOpens(opens)
          elig  == Eligible(handler_list)
          k     == Len(dflt)
      IN  /\ session
          /\ midi_available
          /\ opens = named \o dflt
          /\ OpenNames(named) = (IF found THEN <<mididevice>> ELSE <<>>)
          /\ IF found /\ named[1].ok
             THEN /\ dflt = <<>>
                  /\ midi_handler = mididevice
             ELSE /\ k >= 1
                  /\ k <= Len(elig)
                  /\ OpenNames(dflt) = SubSeq(elig, 1, k)
                  /\ \A i \in 1 .. k : dflt[i].ok <=> (i = k)
                  /\ midi_handler = dflt[k].name
                  /\ (midi_handler = NoneName) <=> (k = Len(elig))

C14_Witness ==
    /\ m_op = "MIDI"
    /\ mididevice = "mt32"
    /\ handler_list = <<"coreaudio", "mt32", "coremidi", NoneName>>
    /\ OpenNames(opens) = <<"mt32", "coreaudio", "coremidi">>
    /\ ~opens[1].ok
    /\ midi_handler = "coremidi"

\* C15 (SessionSpec): MIDI::~MIDI closes the input backend exactly when one
\* is available and is not the output backend, and then before anything
\* else; it closes the output backend when that is available, last; no
\* backend is closed twice, and MIDI_Available() is false afterwards.
C15_Teardown ==
    [][ m_op' = "~MIDI" =>
          LET closeIn  == midi_in_available /\ midi_in_handler # midi_handler
              closeOut == midi_available
              n        == Len(closes')
          IN  /\ n = (IF closeIn THEN 1 ELSE 0) + (IF closeOut THEN 1 ELSE 0)
              /\ closeIn => closes'[1] = midi_in_handler
              /\ closeOut => closes'[n] = midi_handler
              /\ \A i, j \in 1 .. n : i # j => closes'[i] # closes'[j]
              /\ ~MIDI_Available'
      ]_vars

C15_Witness ==
    /\ m_op = "~MIDI"
    /\ closes = <<"coremidi", "coreaudio">>
    /\ midi_in_handler = "coremidi"
    /\ midi_in_available
    /\ ~MIDI_Available

\* C19 (SessionSpec), as claimed: of two backends that getdefault opens, the
\* one constructed earlier is opened first, and Midi_none is opened last.
C19_Original ==
    m_op = "MIDI" =>
      LET dflt == DefaultOpens(opens)
      IN  /\ \A i, j \in DOMAIN dflt :
               i < j => IndexOf(registered, dflt[i].name)
                          < IndexOf(registered, dflt[j].name)
          /\ \A i \in DOMAIN dflt : dflt[i].name = NoneName => i = Len(dflt)

\* C19 (SessionSpec), amended: getdefault opens backends in the reverse of
\* the order of their construction, each constructor putting its backend at
\* the head of handler_list: of two backends it opens, the one constructed
\* later is opened first, and Midi_none, constructed first, is opened only
\* after every other eligible backend.
C19_ReverseRegistration ==
    m_op = "MIDI" =>
      LET dflt == DefaultOpens(opens)
      IN  /\ \A i \in DOMAIN handler_list :
               handler_list[i] = registered[Len(registered) + 1 - i]
          /\ \A i, j \in DOMAIN dflt :
               i < j => IndexOf(registered, dflt[i].name)
                          > IndexOf(registered, dflt[j].name)
          /\ \A i \in DOMAIN dflt :
               dflt[i].name = NoneName =>
                 /\ i = Len(dflt)
                 /\ i = Len(Eligible(registered))

C19_Witness ==
    /\ m_op = "MIDI"
    /\ mididevice = "default"
    /\ registered = <<NoneName, "coremidi", "mt32", "coreaudio">>
    /\ OpenNames(opens) = <<"coreaudio", "coremidi", NoneName>>
    /\ midi_handler = NoneName

(***************************************************************************)
(* Claims on sysex dispatch and pacing                                     *)
(***************************************************************************)
\* The sysex a terminating byte finalizes on slot s: the buffer with 0xF7
\* stored at used
Finalized(s) ==
    LET sx == midi_sysex[s]
    IN  [sx EXCEPT !.buf[sx.used] = 247, !.used = sx.used + 1]

\* A call that finalizes a sysex: the slot is in a transfer and the byte has
\* the high bit set and is below 0xF8
Finalizes ==
    /\ m_op' = "MIDI_RawOutByte"
    /\ midi_status[m_slot'] = 240
    /\ m_data' >= 128
    /\ m_data' < 248

\* The MT-32 signature on a finalized sysex too short to hold a checksum
ShortMT32(t) ==
    /\ t.used >= 4
    /\ t.used <= 9
    /\ t.buf[1] = 65
    /\ t.buf[3] = 22

Signature(buf) ==
    \/ buf[5] = 127
    \/ buf[5] = 16 /\ buf[6] = 0 /\ buf[7] \in {4, 1}

\* A call that passed a sysex to PlaySysex on a slot whose pacing is armed
PacedDispatch ==
    /\ m_op' = "MIDI_RawOutByte"
    /\ midi_sysex[m_slot'].start # 0
    /\ SysexMsgs(sent') # <<>>

\* C17 (SysexSpec), as claimed: after a sysex of finalized length L with no
\* device signature is dispatched on an armed slot, the stored delay is
\* ceil(2L/5) + 2.
C17_Original ==
    [][ (PacedDispatch /\ ~Signature(midi_sysex'[m_slot'].buf)) =>
          LET L == Len(SysexMsgs(sent')[1].bytes)
          IN  midi_sysex'[m_slot'].delay = ((2 * L + 4) \div 5) + 2
      ]_vars

\* C17 (SysexSpec), amended: the stored delay is 2L/5 cut to an integer, plus
\* 2, for every L from 2 (F0 F7) to MIDI_SYSEX_SIZE; L counts the 0xF0 and the
\* 0xF7, and the signatures are looked for at offsets 5..7 of the buffer.
C17_TruncatedDelay ==
    [][ (PacedDispatch /\ ~Signature(midi_sysex'[m_slot'].buf)) =>
          LET L == Len(SysexMsgs(sent')[1].bytes)
          IN  /\ L = midi_sysex[m_slot'].used + 1
              /\ L \in 2 .. MIDI_SYSEX_SIZE
              /\ midi_sysex'[m_slot'].delay = ((2 * L) \div 5) + 2
      ]_vars

C17_Witness ==
    /\ m_op = "MIDI_RawOutByte"
    /\ act = 0
    /\ midi_sysex[0].start # 0
    /\ SysexMsgs(sent) # <<>>
    /\ Len(sent[1].bytes) = 7
    /\ ~Signature(midi_sysex[0].buf)
    /\ midi_sysex[0].delay = 4

\* C18 (PaceSpec), as claimed: the delay stored after a sysex is dispatched
\* on an armed slot is determined by the bytes 0..used-1 of that message, so
\* whatever the slot received before, it is the override when the message
\* itself holds a signature at offsets 5..7 and the delay of its length
\* otherwise.  The code reads offsets 5..7 of the buffer also when the
\* message is shorter, and finds there what an earlier transfer left.
C18_Original ==
    [][ PacedDispatch =>
          LET b == SysexMsgs(sent')[1].bytes
              L == Len(b)
          IN  midi_sysex'[m_slot'].delay =
                (IF L > 5 /\ b[6] = 127 THEN 290
                 ELSE IF L > 7 /\ b[6] = 16 /\ b[7] = 0 /\ b[8] = 4 THEN 145
                 ELSE IF L > 7 /\ b[6] = 16 /\ b[7] = 0 /\ b[8] = 1 THEN 30
                 ELSE ((2 * L) \div 5) + 2)
      ]_vars

\* C20 (RtSpec), as claimed: a byte with the high bit set and below 0xF8
\* that arrives during a sysex transfer dispatches the sysex 0xF0, the data
\* bytes received, 0xF7, and is latched in the same call.
C20_Original ==
    [][ Finalizes =>
          LET s == m_slot'
          IN  /\ SysexMsgs(sent') = <<PlaySysex(<<240>> \o sxdata[s] \o <<247>>)>>
              /\ midi_status'[s] = m_data'
              /\ midi_cmd'[s].len = MIDI_evt_len(m_data')
      ]_vars

\* C20 (RtSpec), amended: such a byte stores 0xF7 after the data bytes kept
\* (the first MIDI_SYSEX_SIZE - 2 received) and the sysex is passed to
\* PlaySysex, unless it is a short MT-32 sysex on an armed slot, before the
\* byte is interpreted; the byte is latched in the same call: status is the
\* byte, cmd.len its table length, cmd.pos 0 when that length is 0 and 1 (the
\* byte stored at buf[0]) otherwise, the sysex buffer seeded with 0xF0 and
\* used = 1 when the byte is 0xF0, and cmd.len = 0 when it is 0xF7.  A status
\* of length 2 or 3 dispatches no fixed message in that call: the message
\* follows when its data bytes have come.
C20_SysexEndedByStatus ==
    [][ Finalizes =>
          LET s    == m_slot'
              d    == m_data'
              t    == Finalized(s)
              got  == sxdata[s]
              kept == SubSeq(got, 1, Min(Len(got), MIDI_SYSEX_SIZE - 2))
          IN  /\ SysexMsgs(sent') =
                   (IF midi_sysex[s].start # 0 /\ ShortMT32(t)
                    THEN <<>>
                    ELSE <<PlaySysex(<<240>> \o kept \o <<247>>)>>)
              /\ \A i \in DOMAIN sent' : sent'[i].kind = "sysex" => i = 1
              /\ midi_status'[s] = d
              /\ midi_cmd'[s].len = MIDI_evt_len(d)
              /\ midi_cmd'[s].pos = (IF MIDI_evt_len(d) = 0 THEN 0 ELSE 1)
              /\ MIDI_evt_len(d) # 0 => midi_cmd'[s].buf[0] = d
              /\ d = 240 => /\ midi_sysex'[s].used = 1
                            /\ midi_sysex'[s].buf[0] = 240
              /\ d = 247 => midi_cmd'[s].len = 0
              /\ Grouped(d) => FixedMsgs(sent') = <<>>
      ]_vars

\* A 3-byte channel status has just ended a sysex transfer of two data bytes
C20_Witness ==
    /\ m_op = "MIDI_RawOutByte"
    /\ m_data = 144
    /\ sent = <<PlaySysex(<<240, 64, 64, 247>>)>>
    /\ midi_status[act] = 144
    /\ midi_cmd[act].len = 3
    /\ midi_cmd[act].pos = 1
    /\ midi_sysex[act].used = 4

(***************************************************************************)
(* Claims on the command buffer and on slot independence                   *)
(***************************************************************************)

\* C21 (CmdSpec), as claimed: on every slot cmd.pos <= cmd.len in every
\* state, a fixed message is dispatched from cmd.buf only at the point where
\* cmd.pos = cmd.len, cmd.pos is 1 right after each such dispatch, and no
\* write to cmd.buf is at an index of 8 or more.  After a status of table
\* length 1 (0xF6) a data byte is stored at buf[1] and the message is
\* dispatched again with cmd.pos = 2 and cmd.len = 1.
C21_Original ==
    /\ in_bounds = TRUE
    /\ \A s \in Slots : midi_cmd[s].pos <= midi_cmd[s].len
    /\ [][ /\ in_bounds' = TRUE
           /\ \A s \in Slots : midi_cmd'[s].pos <= midi_cmd'[s].len
           /\ m_pos' # -1 =>
                /\ m_pos' = midi_cmd'[m_slot'].len
                /\ midi_cmd'[m_slot'].pos = 1
         ]_vars

(***************************************************************************)
(* Claims on catch-up rendering, playback order and teardown               *)
(***************************************************************************)

\* C22 (Spec): a data write or control strobe at clock value now.  If the
\* channel was woken up the cursor becomes now, no frame is pushed to
\* render_queue and the FIFO is not popped.  Otherwise exactly k frames are
\* pushed, k the least non-negative integer with cursor + k * period >= now,
\* with at most k pops of the FIFO; afterwards now <= cursor < now + period
\* if the cursor lagged, and the cursor is unchanged if it did not.
C22_CatchUp ==
    [][ (op' \in {"WriteData", "WriteControl"} /\ assert_ok') =>
          LET now == pic'
              cur == last_rendered_ms
              k   == IF cur >= now THEN 0
                     ELSE CHOOSE j \in 1 .. (now - cur) :
                            /\ cur + j * ms_per_frame >= now
                            /\ cur + (j - 1) * ms_per_frame < now
          IN  IF woke'
              THEN /\ last_rendered_ms' = now
                   /\ render_queue' = render_queue
                   /\ pushed' = 0
                   /\ pops' = 0
                   /\ mid_size' = Len(fifo)
              ELSE /\ Len(render_queue') = Len(render_queue) + k
                   /\ SubSeq(render_queue', 1, Len(render_queue)) = render_queue
                   /\ pushed' = k
                   /\ pops' <= k
                   /\ mid_size' = Len(fifo) - pops'
                   /\ last_rendered_ms' = cur + k * ms_per_frame
                   /\ cur < now => /\ now <= last_rendered_ms'
                                   /\ last_rendered_ms' < now + ms_per_frame
                   /\ cur >= now => last_rendered_ms' = cur
      ]_vars

\* A strobe that was not a wake-up found the cursor behind the clock,
\* pushed two frames with one pop, and left the cursor ahead of the clock
C22_Witness ==
    /\ op = "WriteControl"
    /\ ~woke
    /\ assert_ok
    /\ pushed = 2
    /\ pops = 1
    /\ last_rendered_ms > pic

\* C23 (OrderSpec), as claimed: the frames in the order the mixer receives
\* them (those already mixed, then those waiting in render_queue) are the
\* frames of the initial silence sample and of the accepted writes, in write
\* order, each as one contiguous run, with no sample skipped, and every frame
\* that repeats the sample of the frame before it is rendered while the FIFO
\* holds one entry.  A sample rendered as the sole entry is rendered once more
\* after a write has joined it in the FIFO.
C23_Original ==
    [][ LET FrameOf(b) == AudioFrame(lut_u8to16(b))
            Runs(q) == LET keep == {i \in 1 .. Len(q) : i = 1 \/ q[i] # q[i - 1]}
                           nth(j) == CHOOSE i \in keep :
                                       Cardinality({h \in keep : h <= i}) = j
                       IN  [j \in 1 .. Cardinality(keep) |-> q[nth(j)]]
            Written == <<SilentSample>> \o accepted'
            Played == Runs(heard' \o render_queue')
            before == heard \o render_queue
            new == IF op' = "AudioCallback"
                   THEN SubSeq(mixed', Len(mixed') - rendered' + 1, Len(mixed'))
                   ELSE SubSeq(render_queue', Len(render_queue) + 1,
                               Len(render_queue'))
        IN  assert_ok' =>
              /\ Len(Played) <= Len(Written)
              /\ \A j \in 1 .. Len(Played) : Played[j] = FrameOf(Written[j])
              /\ (Len(new) > 0 /\ Len(before) > 0 /\ new[1] = before[Len(before)])
                   => Len(fifo) = 1
              /\ (\E i \in 1 .. Len(new) - 1 : new[i] = new[i + 1])
                   => mid_size' = 1
      ]_vars

\* C23 (OrderSpec), amended: the frames in the order the mixer receives them
\* (those already mixed, then those waiting in render_queue) are the frames
\* of the initial silence sample and of the accepted writes, in write order,
\* each as one contiguous run, with no sample skipped; and a sample stays in
\* the FIFO after a frame of it is rendered only if it is the sole entry: a
\* call that rendered the same sample twice, or that left the sample it
\* rendered last at the front of the FIFO, left the FIFO with one entry after
\* its rendering, and a call that left more than one entry rendered no frame
\* of the sample then at the front.
C23_PlaybackOrder ==
    [][ LET FrameOf(b) == AudioFrame(lut_u8to16(b))
            Runs(q) == LET keep == {i \in 1 .. Len(q) : i = 1 \/ q[i] # q[i - 1]}
                           nth(j) == CHOOSE i \in keep :
                                       Cardinality({h \in keep : h <= i}) = j
                       IN  [j \in 1 .. Cardinality(keep) |-> q[nth(j)]]
            Written == <<SilentSample>> \o accepted'
            Played == Runs(heard' \o render_queue')
            new == IF op' = "AudioCallback"
                   THEN SubSeq(mixed', Len(mixed') - rendered' + 1, Len(mixed'))
                   ELSE SubSeq(render_queue', Len(render_queue) + 1,
                               Len(render_queue'))
        IN  assert_ok' =>
              /\ Len(Played) <= Len(Written)
              /\ \A j \in 1 .. Len(Played) : Played[j] = FrameOf(Written[j])
              /\ Len(new) = rendered'
              /\ Len(new) > 0 =>
                   /\ (\E i \in 1 .. Len(new) - 1 : new[i] = new[i + 1])
                        => mid_size' = 1
                   /\ new[Len(new)] = FrameOf(Head(fifo')) => mid_size' = 1
                   /\ mid_size' > 1 =>
                        \A i \in 1 .. Len(new) : new[i] # FrameOf(Head(fifo'))
      ]_vars

\* A pull of two frames that rendered the silence sample a second time, with
\* the first write already behind it in the FIFO, and then the first write
C23_Witness ==
    /\ op = "AudioCallback"
    /\ arg = 2
    /\ rendered = 2
    /\ heard = <<AudioFrame(lut_u8to16(SilentSample)),
                 AudioFrame(lut_u8to16(SilentSample)), AudioFrame(lut_u8to16(1))>>
    /\ accepted = <<1>>
    /\ fifo = <<1>>

\* C24 (ConcSpec), as claimed: with the port-write path and the audio-pull
\* path interleaved between any two accesses of fifo, render_queue and
\* last_rendered_ms, and the destructor free to run while a pull is in
\* progress, Render never reads an empty FIFO, the FIFO holds between 1 and
\* max_fifo_size entries until the destructor runs, and render_queue is never
\* popped while empty.  The source takes no lock: two Render() calls can both
\* pass the size test and both pop, and the destructor can empty the queues
\* under a pull.
C24_Original ==
    /\ fault = "none"
    /\ alive => (Len(fifo) >= 1 /\ Len(fifo) <= max_fifo_size)

\* C25 (SlotSpec): MIDI_RawOutByte(data, s) and MIDI_ClearBuffer(s) leave
\* status, cmd and sysex of every slot other than s as they were, and what a
\* call on a slot sends to the backend, and leaves in the slot, is what a
\* router that was sent that slot's calls alone sends and holds.
C25_SlotsIndependent ==
    [][ m_op' \in {"MIDI_RawOutByte", "MIDI_ClearBuffer"} =>
          /\ \A t \in Slots \ {m_slot'} :
               /\ midi_status'[t] = midi_status[t]
               /\ midi_cmd'[t] = midi_cmd[t]
               /\ midi_sysex'[t] = midi_sysex[t]
          /\ solo' = [status |-> midi_status'[act], cmd |-> midi_cmd'[act],
                      sysex |-> midi_sysex'[act]]
          /\ m_slot' = act => sent' = solo_sent'
      ]_vars

\* Slot 3 completed a note-on at clock 7, one millisecond after slot 0 had
\* its three-byte sysex dispatched: the two transfers overlapped
C25_Witness ==
    /\ act = 3
    /\ m_op = "MIDI_RawOutByte"
    /\ m_slot = 3
    /\ m_at = 7
    /\ sent = <<PlayMsg(<<144, 64, 64>>)>>
    /\ solo_sent = sent
    /\ midi_status[0] = 247
    /\ midi_sysex[0].used = 3
    /\ midi_sysex[0].start = 6

====
